---- MODULE Spec2Model ----
(***************************************************************************)
(* State-machine model of the job-portal single-page client                *)
(* (frontend/src/App.js): the session store (AuthProvider), the route      *)
(* guard, the Login/Register forms, the candidate and employer dashboards  *)
(* with their modals, the requests in flight, and the REST server the      *)
(* client talks to.                                                        *)
(***************************************************************************)
EXTENDS Naturals, FiniteSets, Sequences, Bags, TLC

VARIABLES
  token,                \* localStorage['token'], Null when absent
  authHeader,           \* axios.defaults.headers.common['Authorization']
  user,                 \* AuthProvider state `user`
  loading,              \* AuthProvider state `loading`
  route,                \* the path the page was loaded at
  view,                 \* what the route's element renders
  error,                \* Login state `error`
  showRegister,         \* Login state `showRegister`
  regError,             \* Register state `error`
  regForm,              \* Register state `formData` (role, company_name)
  jobs,                 \* dashboard state `jobs`
  resumes,              \* CandidateDashboard state `resumes`
  applications,         \* dashboard state `applications`
  selectedJob,          \* CandidateDashboard state `selectedJob`
  showUploadModal,      \* CandidateDashboard state
  showApplicationModal, \* CandidateDashboard state
  showJobModal,         \* EmployerDashboard state
  file,                 \* UploadModal state `file`
  selectedResume,       \* ApplicationModal state `selectedResume`
  net,                  \* bag of HTTP exchanges in flight
  srvResumes,           \* server: stored resumes
  srvApplications,      \* server: stored applications
  srvJobs,              \* server: stored jobs
  hist                  \* history of the run (read by the properties only)

vars == <<token, authHeader, user, loading, route, view, error, showRegister,
          regError, regForm, jobs, resumes, applications, selectedJob,
          showUploadModal, showApplicationModal, showJobModal, file,
          selectedResume, net, srvResumes, srvApplications, srvJobs, hist>>

----------------------------------------------------------------------------
(* Bounds of the exploration *)

MaxNet == 2          \* user submissions are accepted while fewer exchanges are in flight

----------------------------------------------------------------------------
(* Values *)

Null == "null"                    \* JS null / undefined / absent key
Users == {"alice", "bob", "carol"}
Creds == Users \cup {"mallory"}   \* what can be typed into the credential inputs
Files == {"cv.pdf"}
JobTitles == {"dev"}
Routes == {"/", "/login"}
ErrDetails == {Null, "", "Invalid credentials"}

\* user.role of the user records the server returns
role == [alice |-> "candidate", bob |-> "employer", carol |-> "admin"]

\* the access_token the server returns with each user
access_token == [alice |-> "t1", bob |-> "t2", carol |-> "t3"]

\* `Bearer ${token}`
Bearer(t) == "Bearer " \o t

\* the server's reading of an Authorization header: the user it authenticates
UserOfHeader(h) ==
  IF \E u \in Users : Bearer(access_token[u]) = h
    THEN CHOOSE u \in Users : Bearer(access_token[u]) = h
    ELSE Null

\* a || b on strings: b when a is undefined or empty
OrElse(a, b) == IF a = Null \/ a = "" THEN b ELSE a

\* a record of a collection: a job (a: title, o: poster), a resume (a: filename,
\* o: owner) or an application (a: job_id, b: resume_id, o: applicant)
Item(i, a, b, o) == [id |-> i, a |-> a, b |-> b, o |-> o]

FetchKinds == {"getJobs", "getResumes", "getApplications"}
MutationKinds == {"upload", "apply", "createJob"}

\* the collection a mutation's handler re-fetches
RefetchOf == [upload |-> "getResumes", apply |-> "getApplications",
              createJob |-> "getJobs"]

\* an axios call in flight: the request as issued, then the response
Req(kind, auth, p1, p2, live, cause, c1, c2) ==
  [kind |-> kind, phase |-> "req", auth |-> auth, p1 |-> p1, p2 |-> p2,
   live |-> live, cause |-> cause, c1 |-> c1, c2 |-> c2,
   ok |-> FALSE, list |-> {}]

Resp(m, ok, list) == [m EXCEPT !.phase = "resp", !.ok = ok, !.list = list]

One(m) == SetToBag({m})

\* the bag B with every element e replaced by f[e]
MapBag(f, B) ==
  LET img == {f[e] : e \in DOMAIN B}
  IN  [x \in img |->
         BagCardinality([e \in {d \in DOMAIN B : f[d] = x} |-> B[e]])]

\* the exchanges B once the component that issued those of `kinds` has left
\* the tree: nothing is aborted, the setState calls of their callbacks are lost
Orphaned(kinds, B) ==
  MapBag([m \in DOMAIN B |-> IF m.kind \in kinds THEN [m EXCEPT !.live = FALSE]
                                                  ELSE m], B)

----------------------------------------------------------------------------
(* The client's state as one record, so that a handler is a function from  *)
(* the state before it to the state after it and rendering composes with it *)

cur ==
  [token |-> token, authHeader |-> authHeader, user |-> user,
   loading |-> loading, route |-> route, view |-> view, error |-> error,
   showRegister |-> showRegister, regError |-> regError, regForm |-> regForm,
   jobs |-> jobs, resumes |-> resumes, applications |-> applications,
   selectedJob |-> selectedJob, showUploadModal |-> showUploadModal,
   showApplicationModal |-> showApplicationModal,
   showJobModal |-> showJobModal, file |-> file,
   selectedResume |-> selectedResume, net |-> net]

Commit(s) ==
  /\ token' = s.token
  /\ authHeader' = s.authHeader
  /\ user' = s.user
  /\ loading' = s.loading
  /\ route' = s.route
  /\ view' = s.view
  /\ error' = s.error
  /\ showRegister' = s.showRegister
  /\ regError' = s.regError
  /\ regForm' = s.regForm
  /\ jobs' = s.jobs
  /\ resumes' = s.resumes
  /\ applications' = s.applications
  /\ selectedJob' = s.selectedJob
  /\ showUploadModal' = s.showUploadModal
  /\ showApplicationModal' = s.showApplicationModal
  /\ showJobModal' = s.showJobModal
  /\ file' = s.file
  /\ selectedResume' = s.selectedResume
  /\ net' = s.net

srv == <<srvResumes, srvApplications, srvJobs>>

\* Register: useState({ ..., role: 'candidate', company_name: '' })
RegFormInit == [role |-> "candidate", company_name |-> ""]

NoJob == Item(Null, Null, Null, Null)

\* Dashboard: the component rendered for the user's role
Dashboard(u) ==
  IF role[u] = "candidate" THEN "candidate"
  ELSE IF role[u] = "employer" THEN "employer"
  ELSE "admin"

\* ProtectedRoute without its loading branch
ProtectedRoute_NoLoading(ld, u) ==
  IF u = Null THEN "login" ELSE Dashboard(u)

\* ProtectedRoute: placeholder while loading, Login without a user, else children
ProtectedRoute(ld, u) ==
  IF ld THEN "loading"
  ELSE IF u = Null THEN "login"
  ELSE Dashboard(u)

\* App: the element of the route: /login is Login, / is the guarded dashboard
Screen(rt, ld, u) == IF rt = "/login" THEN "login" ELSE ProtectedRoute(ld, u)

Dashboards == {"candidate", "employer", "admin"}

\* Register unmounts: its state is dropped, its pending setError calls go nowhere
UnmountRegister(s) ==
  [s EXCEPT !.showRegister = FALSE, !.regError = "", !.regForm = RegFormInit,
            !.net = Orphaned({"register"}, s.net)]

\* Login unmounts (with the Register it may be showing)
UnmountLogin(s) ==
  LET t == UnmountRegister(s)
  IN  [t EXCEPT !.error = "", !.net = Orphaned({"login"}, t.net)]

\* a dashboard unmounts: its state is dropped; its requests are not aborted,
\* their setState calls go nowhere
UnmountDashboard(s) ==
  [s EXCEPT !.jobs = {}, !.resumes = {}, !.applications = {},
            !.selectedJob = NoJob, !.showUploadModal = FALSE,
            !.showApplicationModal = FALSE, !.showJobModal = FALSE,
            !.file = Null, !.selectedResume = "",
            !.net = Orphaned(FetchKinds \cup MutationKinds, s.net)]

\* the mount effects: CandidateDashboard fetches jobs, resumes, applications;
\* EmployerDashboard fetches jobs and applications; AdminDashboard nothing
MountDashboard(s, d) ==
  LET ks == IF d = "candidate" THEN FetchKinds
            ELSE IF d = "employer" THEN {"getJobs", "getApplications"}
            ELSE {}
      reqs == SetToBag({Req(k, s.authHeader, Null, Null, TRUE, "mount", Null, Null)
                          : k \in ks})
  IN  [s EXCEPT !.net = s.net (+) reqs]

\* React re-renders after a handler: components leave and enter the tree
Render(s) ==
  LET v  == Screen(s.route, s.loading, s.user)
      s1 == IF s.view = "login" /\ v # "login" THEN UnmountLogin(s) ELSE s
      s2 == IF s.view \in Dashboards /\ v # s.view THEN UnmountDashboard(s1) ELSE s1
      s3 == IF v \in Dashboards /\ v # s.view THEN MountDashboard(s2, v) ELSE s2
  IN  [s3 EXCEPT !.view = v]

InFlight == BagCardinality(net)
Msgs == BagToSet(net)

----------------------------------------------------------------------------
(* Start *)

NoHeader == "undefined"

\* hist.loggedOut: Logout ran and no login or register was submitted since
\* hist.sess: the header of the last successful login/register, NoHeader
\*            after a logout, "?" before either
\* hist.expect: as hist.sess, and NoHeader after a failed session restore too
\* hist.written: the mutations the mounted dashboard saw succeed
\* hist.failed: the kind of the last mutation the mounted dashboard saw fail,
\*              "" when it saw none or saw one succeed since
HistInit ==
  [loggedOut |-> FALSE, sess |-> "?", expect |-> "?", written |-> {}, failed |-> ""]

\* the history of the mounted dashboard ends when the dashboard leaves the tree
Remount(h) == IF view' # view THEN [h EXCEPT !.written = {}, !.failed = ""] ELSE h

\* the page freshly loaded at rt with nothing persisted: the start-up effect
\* found no token and ended loading; the server holds one job, posted by an
\* employer who is not at this client
Init ==
  /\ route \in Routes
  /\ token = Null
  /\ authHeader = NoHeader
  /\ user = Null
  /\ loading = FALSE
  /\ view = "login"
  /\ error = ""
  /\ showRegister = FALSE
  /\ regError = ""
  /\ regForm = RegFormInit
  /\ jobs = {}
  /\ resumes = {}
  /\ applications = {}
  /\ selectedJob = NoJob
  /\ showUploadModal = FALSE
  /\ showApplicationModal = FALSE
  /\ showJobModal = FALSE
  /\ file = Null
  /\ selectedResume = ""
  /\ net = EmptyBag
  /\ srvResumes = {}
  /\ srvApplications = {}
  /\ srvJobs = {Item("j1", "qa", Null, "erin")}
  /\ hist = HistInit

----------------------------------------------------------------------------
(* Session store: AuthProvider *)

\* the start-up effect fetching the user without attaching the token
StartupEffect_NoAttach(s) ==
  IF s.token # Null
    THEN [s EXCEPT !.net = s.net (+) One(Req("me", s.authHeader, Null, Null,
                                             TRUE, "start", Null, Null))]
    ELSE [s EXCEPT !.loading = FALSE]

\* the start-up effect: read the persisted token; attach it and fetch the
\* current user, or end loading
StartupEffect(s) ==
  IF s.token # Null
    THEN LET t == [s EXCEPT !.authHeader = Bearer(s.token)]
         IN  [t EXCEPT !.net = t.net (+) One(Req("me", t.authHeader, Null, Null,
                                                 TRUE, "start", Null, Null))]
    ELSE [s EXCEPT !.loading = FALSE]

\* a page (re)load at rt: the in-memory state and the axios defaults start
\* over, the pending callbacks are gone, localStorage stays; then the
\* start-up effect runs
Reload(rt) ==
  /\ LET fresh == [token |-> token, authHeader |-> NoHeader, user |-> Null,
                   loading |-> TRUE, route |-> rt,
                   view |-> Screen(rt, TRUE, Null), error |-> "",
                   showRegister |-> FALSE, regError |-> "",
                   regForm |-> RegFormInit, jobs |-> {}, resumes |-> {},
                   applications |-> {}, selectedJob |-> NoJob,
                   showUploadModal |-> FALSE, showApplicationModal |-> FALSE,
                   showJobModal |-> FALSE, file |-> Null,
                   selectedResume |-> "", net |-> EmptyBag]
     IN  Commit(Render(StartupEffect(fresh)))
  /\ hist' = Remount(hist)
  /\ UNCHANGED srv

\* fetchUser without its finally block: loading ends on success only
fetchUser_NoFinally(s, m, ok) ==
  LET t == IF ok
             THEN [s EXCEPT !.user = UserOfHeader(m.auth), !.loading = FALSE]
             ELSE [s EXCEPT !.token = Null, !.authHeader = NoHeader]
  IN  [t EXCEPT !.net = s.net (-) One(m)]

\* fetchUser, from the response of GET /me on: setUser on success; on failure
\* remove the token and the header; finally end loading
fetchUser(s, m, ok) ==
  LET t == IF ok
             THEN [s EXCEPT !.user = UserOfHeader(m.auth)]
             ELSE [s EXCEPT !.token = Null, !.authHeader = NoHeader]
  IN  [t EXCEPT !.loading = FALSE, !.net = s.net (-) One(m)]

\* GET /me resolves: the server knows the token or not
MeResolve(m, ok) ==
  /\ m \in Msgs /\ m.kind = "me"
  /\ ok => UserOfHeader(m.auth) # Null
  /\ Commit(Render(fetchUser(cur, m, ok)))
  /\ hist' = Remount([hist EXCEPT !.expect = IF ok THEN @ ELSE NoHeader])
  /\ UNCHANGED srv

\* login/register after the response: persist the token, attach it, setUser
authSuccess(s, tok, usr) ==
  [s EXCEPT !.token = tok, !.authHeader = Bearer(tok), !.user = usr]

\* login that attaches the token and sets the user but does not persist it
login_NoPersist(s, m, ok, detail) ==
  LET t == IF ok
             THEN [s EXCEPT !.authHeader = Bearer(access_token[m.p1]), !.user = m.p1]
             ELSE IF m.live
                    THEN [s EXCEPT !.error = OrElse(detail, "Login failed")]
                    ELSE s
  IN  [t EXCEPT !.net = s.net (-) One(m)]

\* login(email, password), from the response of POST /login on, then
\* Login.handleSubmit: setError(result.error) when it did not succeed
login(s, m, ok, detail) ==
  LET t == IF ok
             THEN authSuccess(s, access_token[m.p1], m.p1)
             ELSE IF m.live
                    THEN [s EXCEPT !.error = OrElse(detail, "Login failed")]
                    ELSE s
  IN  [t EXCEPT !.net = s.net (-) One(m)]

\* Login form submit: POST /login with the typed credentials
LoginSubmit(cred) ==
  /\ view = "login" /\ ~showRegister
  /\ InFlight < MaxNet
  /\ Commit([cur EXCEPT !.net = net (+) One(Req("login", authHeader, cred, Null,
                                                TRUE, "user", Null, Null))])
  /\ hist' = [hist EXCEPT !.loggedOut = FALSE]
  /\ UNCHANGED srv

\* POST /login resolves: the server accepts the credentials of a user it
\* knows, or rejects with or without a detail
LoginResolve(m, ok, detail) ==
  /\ m \in Msgs /\ m.kind = "login"
  /\ ok => m.p1 \in Users
  /\ ok => detail = Null
  /\ Commit(Render(login(cur, m, ok, detail)))
  /\ hist' = Remount(IF ok THEN [hist EXCEPT !.sess = Bearer(access_token[m.p1]),
                                             !.expect = Bearer(access_token[m.p1])]
                           ELSE hist)
  /\ UNCHANGED srv

\* logout: remove the token and the header, setUser(null)
logout(s) == [s EXCEPT !.token = Null, !.authHeader = NoHeader, !.user = Null]

\* the Logout button of Navigation, rendered with a user on the guarded route
Logout ==
  /\ view \in Dashboards
  /\ Commit(Render(logout(cur)))
  /\ hist' = Remount([hist EXCEPT !.loggedOut = TRUE, !.sess = NoHeader,
                                  !.expect = NoHeader])
  /\ UNCHANGED srv

----------------------------------------------------------------------------
(* Login and Register forms *)

\* "Don't have an account? Sign up": setShowRegister(true)
ShowRegister ==
  /\ view = "login" /\ ~showRegister
  /\ Commit([cur EXCEPT !.showRegister = TRUE])
  /\ UNCHANGED <<srv, hist>>

\* "Already have an account? Sign in": onBack, Register leaves the tree
BackToLogin ==
  /\ view = "login" /\ showRegister
  /\ Commit(UnmountRegister(cur))
  /\ UNCHANGED <<srv, hist>>

\* the role select: setFormData({ ...formData, role })
ChangeRole(r) ==
  /\ view = "login" /\ showRegister
  /\ r \in {"candidate", "employer"}
  /\ Commit([cur EXCEPT !.regForm.role = r])
  /\ UNCHANGED <<srv, hist>>

\* the company_name input, rendered only for role employer
ChangeCompany(c) ==
  /\ view = "login" /\ showRegister
  /\ regForm.role = "employer"
  /\ Commit([cur EXCEPT !.regForm.company_name = c])
  /\ UNCHANGED <<srv, hist>>

\* the Register form with no `required` on company_name
RegisterValid_NotRequired(f) == TRUE

\* the browser's constraint validation of the Register form: the rendered
\* `required` inputs hold a value (full_name, email and password are typed
\* with the submission; company_name is rendered, and required, for employer)
RegisterValid(f) == f.role = "employer" => f.company_name # ""

\* Register form submit: POST /register with formData
RegisterSubmit ==
  /\ view = "login" /\ showRegister
  /\ RegisterValid(regForm)
  /\ InFlight < MaxNet
  /\ Commit([cur EXCEPT !.net = net (+) One(Req("register", authHeader,
                                                regForm.role, regForm.company_name,
                                                TRUE, "user", Null, Null))])
  /\ hist' = [hist EXCEPT !.loggedOut = FALSE]
  /\ UNCHANGED srv

\* the user the server creates for a registration: one with the role asked for
Registered(r) == CHOOSE u \in Users : role[u] = r

\* register(userData), from the response of POST /register on, then
\* Register.handleSubmit
register(s, m, ok, detail) ==
  LET t == IF ok
             THEN authSuccess(s, access_token[Registered(m.p1)], Registered(m.p1))
             ELSE IF m.live
                    THEN [s EXCEPT !.regError = OrElse(detail, "Registration failed")]
                    ELSE s
  IN  [t EXCEPT !.net = s.net (-) One(m)]

\* POST /register resolves
RegisterResolve(m, ok, detail) ==
  /\ m \in Msgs /\ m.kind = "register"
  /\ ok => detail = Null
  /\ Commit(Render(register(cur, m, ok, detail)))
  /\ hist' = Remount(IF ok THEN [hist EXCEPT
                                        !.sess = Bearer(access_token[Registered(m.p1)]),
                                        !.expect = Bearer(access_token[Registered(m.p1)])]
                           ELSE hist)
  /\ UNCHANGED srv

----------------------------------------------------------------------------
(* Candidate and employer dashboards, their modals *)

NoModal == ~showUploadModal /\ ~showApplicationModal /\ ~showJobModal

\* "Upload Resume": setShowUploadModal(true)
OpenUploadModal ==
  /\ view = "candidate" /\ NoModal
  /\ Commit([cur EXCEPT !.showUploadModal = TRUE])
  /\ UNCHANGED <<srv, hist>>

\* the file input of UploadModal: setFile(e.target.files[0])
ChooseFile(f) ==
  /\ view = "candidate" /\ showUploadModal
  /\ Commit([cur EXCEPT !.file = f])
  /\ UNCHANGED <<srv, hist>>

\* Cancel of UploadModal: onClose, UploadModal leaves the tree
CloseUploadModal ==
  /\ view = "candidate" /\ showUploadModal
  /\ Commit([cur EXCEPT !.showUploadModal = FALSE, !.file = Null])
  /\ UNCHANGED <<srv, hist>>

\* UploadModal.handleSubmit: if (file) onUpload(file); handleUploadResume
\* posts the file to /resumes/upload
UploadSubmit ==
  /\ view = "candidate" /\ showUploadModal
  /\ file # Null
  /\ InFlight < MaxNet
  /\ Commit([cur EXCEPT !.net = net (+) One(Req("upload", authHeader, file, Null,
                                                TRUE, "user", Null, Null))])
  /\ UNCHANGED <<srv, hist>>

\* "Apply Now" of a listed job: setSelectedJob(job); setShowApplicationModal(true)
ApplyNow(job) ==
  /\ view = "candidate" /\ NoModal
  /\ job \in jobs
  /\ Commit([cur EXCEPT !.selectedJob = job, !.showApplicationModal = TRUE])
  /\ UNCHANGED <<srv, hist>>

\* the resume select of ApplicationModal: the empty choice or a listed resume
SelectResume(r) ==
  /\ view = "candidate" /\ showApplicationModal
  /\ r \in {""} \cup {x.id : x \in resumes}
  /\ Commit([cur EXCEPT !.selectedResume = r])
  /\ UNCHANGED <<srv, hist>>

\* Cancel of ApplicationModal
CloseApplicationModal ==
  /\ view = "candidate" /\ showApplicationModal
  /\ Commit([cur EXCEPT !.showApplicationModal = FALSE, !.selectedResume = ""])
  /\ UNCHANGED <<srv, hist>>

\* ApplicationModal.handleSubmit: if (selectedResume) onSubmit(job.id,
\* selectedResume, coverLetter); handleApplyToJob posts to /applications
ApplySubmit ==
  /\ view = "candidate" /\ showApplicationModal
  /\ selectedResume # ""
  /\ InFlight < MaxNet
  /\ Commit([cur EXCEPT !.net = net (+) One(Req("apply", authHeader, selectedJob.id,
                                                selectedResume, TRUE, "user",
                                                Null, Null))])
  /\ UNCHANGED <<srv, hist>>

\* "Post New Job": setShowJobModal(true)
OpenJobModal ==
  /\ view = "employer" /\ NoModal
  /\ Commit([cur EXCEPT !.showJobModal = TRUE])
  /\ UNCHANGED <<srv, hist>>

\* Cancel of JobModal
CloseJobModal ==
  /\ view = "employer" /\ showJobModal
  /\ Commit([cur EXCEPT !.showJobModal = FALSE])
  /\ UNCHANGED <<srv, hist>>

\* JobModal.handleSubmit: onSubmit(formattedData); handleCreateJob posts to /jobs
JobSubmit(title) ==
  /\ view = "employer" /\ showJobModal
  /\ InFlight < MaxNet
  /\ Commit([cur EXCEPT !.net = net (+) One(Req("createJob", authHeader, title, Null,
                                                TRUE, "user", Null, Null))])
  /\ UNCHANGED <<srv, hist>>

\* the setter of the collection a fetch reads
SetList(s, kind, list) ==
  IF kind = "getJobs" THEN [s EXCEPT !.jobs = list]
  ELSE IF kind = "getResumes" THEN [s EXCEPT !.resumes = list]
  ELSE [s EXCEPT !.applications = list]

\* a fetch that asks again when its request failed
fetchDone_Retry(s, m) ==
  IF m.ok
    THEN (IF m.live THEN SetList(s, m.kind, m.list) ELSE s)
    ELSE [s EXCEPT !.net = s.net (+) One(Req(m.kind, s.authHeader, Null, Null,
                                             m.live, m.cause, m.c1, m.c2))]

\* fetchJobs / fetchResumes / fetchApplications, from the response on:
\* set the list on success, console.error on failure
fetchDone(s, m) ==
  IF m.ok /\ m.live THEN SetList(s, m.kind, m.list) ELSE s

\* the modal a mutation's handler closes
CloseModalOf(s, kind) ==
  IF kind = "upload" THEN [s EXCEPT !.showUploadModal = FALSE, !.file = Null]
  ELSE IF kind = "apply"
    THEN [s EXCEPT !.showApplicationModal = FALSE, !.selectedResume = ""]
  ELSE [s EXCEPT !.showJobModal = FALSE]

\* a mutation handler that closes its modal whether or not the POST succeeded
mutationDone_CloseAlways(s, m) ==
  LET t == IF m.live THEN CloseModalOf(s, m.kind) ELSE s
  IN  IF m.ok
        THEN [t EXCEPT !.net = s.net (+) One(Req(RefetchOf[m.kind], s.authHeader,
                                                 Null, Null, m.live, "refetch",
                                                 m.p1, m.p2))]
        ELSE t

\* a mutation handler that re-fetches whether or not the POST succeeded
mutationDone_Always(s, m) ==
  LET t == IF m.ok /\ m.live THEN CloseModalOf(s, m.kind) ELSE s
  IN  [t EXCEPT !.net = s.net (+) One(Req(RefetchOf[m.kind], s.authHeader,
                                          Null, Null, m.live, "refetch",
                                          m.p1, m.p2))]

\* handleUploadResume / handleApplyToJob / handleCreateJob, from the response
\* of the POST on: re-fetch the collection and close the modal on success,
\* console.error on failure
mutationDone(s, m) ==
  IF m.ok
    THEN LET t == IF m.live THEN CloseModalOf(s, m.kind) ELSE s
         IN  [t EXCEPT !.net = s.net (+) One(Req(RefetchOf[m.kind], s.authHeader,
                                                 Null, Null, m.live, "refetch",
                                                 m.p1, m.p2))]
    ELSE s

\* a response reaches the handler that awaits it
Received(m) ==
  /\ m \in Msgs /\ m.phase = "resp"
  /\ m.kind \in FetchKinds \cup MutationKinds
  /\ LET s == [cur EXCEPT !.net = net (-) One(m)]
     IN  Commit(IF m.kind \in FetchKinds THEN fetchDone(s, m) ELSE mutationDone(s, m))
  /\ UNCHANGED srv

\* a response reaches the dashboard that asked
Deliver(m) ==
  /\ Received(m)
  /\ hist' = IF m.live /\ m.kind \in MutationKinds /\ m.ok
               THEN [hist EXCEPT !.written = @ \cup {<<m.kind, m.p1, m.p2>>}]
               ELSE hist

\* the same, the history keeping the failures of mutations too
DeliverNoted(m) ==
  /\ Received(m)
  /\ hist' = IF m.live /\ m.kind \in MutationKinds
               THEN IF m.ok
                      THEN [hist EXCEPT !.written = @ \cup {<<m.kind, m.p1, m.p2>>},
                                        !.failed = ""]
                      ELSE [hist EXCEPT !.failed = m.kind]
               ELSE hist

----------------------------------------------------------------------------
(* The REST server, for the collection and mutation endpoints *)

ResumeId(f, u) == "r:" \o u \o ":" \o f
ApplicationId(j, r) == "a:" \o j \o ":" \o r
JobId(t) == "j:" \o t

\* what the server stores for a POST by user u
Stored(m, u) ==
  IF m.kind = "upload" THEN Item(ResumeId(m.p1, u), m.p1, Null, u)
  ELSE IF m.kind = "apply" THEN Item(ApplicationId(m.p1, m.p2), m.p1, m.p2, u)
  ELSE Item(JobId(m.p1), m.p1, Null, u)

\* what the server lists for a GET by user u: the jobs, the user's resumes,
\* the user's applications (an employer's: those for the jobs it posted)
Listed(kind, u) ==
  IF kind = "getJobs" THEN srvJobs
  ELSE IF kind = "getResumes" THEN {r \in srvResumes : r.o = u}
  ELSE IF role[u] = "employer"
    THEN {x \in srvApplications : \E j \in srvJobs : j.id = x.a /\ j.o = u}
  ELSE {x \in srvApplications : x.o = u}

\* the server answers a request: a failure (no valid bearer token, or any
\* other error), or the listing, or the stored write
Serve(m, ok) ==
  /\ m \in Msgs /\ m.phase = "req"
  /\ m.kind \in FetchKinds \cup MutationKinds
  /\ ok => UserOfHeader(m.auth) # Null
  /\ LET u == UserOfHeader(m.auth)
         list == IF ok /\ m.kind \in FetchKinds THEN Listed(m.kind, u) ELSE {}
     IN  /\ Commit([cur EXCEPT !.net = (net (-) One(m)) (+) One(Resp(m, ok, list))])
         /\ srvResumes' = IF ok /\ m.kind = "upload"
                            THEN srvResumes \cup {Stored(m, u)} ELSE srvResumes
         /\ srvApplications' = IF ok /\ m.kind = "apply"
                                 THEN srvApplications \cup {Stored(m, u)}
                                 ELSE srvApplications
         /\ srvJobs' = IF ok /\ m.kind = "createJob"
                         THEN srvJobs \cup {Stored(m, u)} ELSE srvJobs
  /\ UNCHANGED hist

----------------------------------------------------------------------------
(* The program *)

Next ==
  \/ \E rt \in Routes : Reload(rt)
  \/ \E m \in Msgs, ok \in BOOLEAN : MeResolve(m, ok)
  \/ \E c \in Creds : LoginSubmit(c)
  \/ \E m \in Msgs, ok \in BOOLEAN, d \in ErrDetails : LoginResolve(m, ok, d)
  \/ Logout
  \/ ShowRegister
  \/ BackToLogin
  \/ \E r \in {"candidate", "employer"} : ChangeRole(r)
  \/ \E c \in {"", "acme"} : ChangeCompany(c)
  \/ RegisterSubmit
  \/ \E m \in Msgs, ok \in BOOLEAN, d \in ErrDetails : RegisterResolve(m, ok, d)
  \/ OpenUploadModal
  \/ \E f \in Files : ChooseFile(f)
  \/ CloseUploadModal
  \/ UploadSubmit
  \/ \E j \in jobs : ApplyNow(j)
  \/ \E r \in {""} \cup {x.id : x \in resumes} : SelectResume(r)
  \/ CloseApplicationModal
  \/ ApplySubmit
  \/ OpenJobModal
  \/ CloseJobModal
  \/ \E t \in JobTitles : JobSubmit(t)
  \/ \E m \in Msgs, ok \in BOOLEAN : Serve(m, ok)
  \/ \E m \in Msgs : Deliver(m)

Spec == Init /\ [][Next]_vars

\* the session store, the route guard and the forms: every action but the
\* modals of the dashboards, whose mount fetches are served and delivered
SessionNext ==
  \/ \E rt \in Routes : Reload(rt)
  \/ \E m \in Msgs, ok \in BOOLEAN : MeResolve(m, ok)
  \/ \E c \in Creds : LoginSubmit(c)
  \/ \E m \in Msgs, ok \in BOOLEAN, d \in ErrDetails : LoginResolve(m, ok, d)
  \/ Logout
  \/ ShowRegister
  \/ BackToLogin
  \/ \E r \in {"candidate", "employer"} : ChangeRole(r)
  \/ \E c \in {"", "acme"} : ChangeCompany(c)
  \/ RegisterSubmit
  \/ \E m \in Msgs, ok \in BOOLEAN, d \in ErrDetails : RegisterResolve(m, ok, d)
  \/ \E m \in Msgs, ok \in BOOLEAN : Serve(m, ok)
  \/ \E m \in Msgs : Deliver(m)

SessionSpec == Init /\ [][SessionNext]_vars

\* the dashboards on the guarded route: logins of the candidate and of the
\* employer, logout, the modals and their mutations, the server
DashInit == Init /\ route = "/"

DashNext ==
  \/ \E c \in {"alice", "bob"} : LoginSubmit(c)
  \/ \E m \in Msgs : LoginResolve(m, TRUE, Null)
  \/ Logout
  \/ OpenUploadModal
  \/ \E f \in Files : ChooseFile(f)
  \/ CloseUploadModal
  \/ UploadSubmit
  \/ \E j \in jobs : ApplyNow(j)
  \/ \E r \in {""} \cup {x.id : x \in resumes} : SelectResume(r)
  \/ CloseApplicationModal
  \/ ApplySubmit
  \/ OpenJobModal
  \/ CloseJobModal
  \/ \E t \in JobTitles : JobSubmit(t)
  \/ \E m \in Msgs, ok \in BOOLEAN : Serve(m, ok)
  \/ \E m \in Msgs : Deliver(m)

DashSpec == DashInit /\ [][DashNext]_vars

\* the dashboards with a server that fails no request
ReliableNext ==
  \/ \E c \in {"alice", "bob"} : LoginSubmit(c)
  \/ \E m \in Msgs : LoginResolve(m, TRUE, Null)
  \/ Logout
  \/ OpenUploadModal
  \/ \E f \in Files : ChooseFile(f)
  \/ CloseUploadModal
  \/ UploadSubmit
  \/ \E j \in jobs : ApplyNow(j)
  \/ \E r \in {""} \cup {x.id : x \in resumes} : SelectResume(r)
  \/ CloseApplicationModal
  \/ ApplySubmit
  \/ OpenJobModal
  \/ CloseJobModal
  \/ \E t \in JobTitles : JobSubmit(t)
  \/ \E m \in Msgs : Serve(m, UserOfHeader(m.auth) # Null)
  \/ \E m \in Msgs : Deliver(m)

ReliableSpec == DashInit /\ [][ReliableNext]_vars

----------------------------------------------------------------------------
(* Properties *)

\* the exchanges in flight as they are on the wire (whether the component
\* that asked is still mounted is the client's business)
Wire(m) == [m EXCEPT !.live = TRUE]
Wires == MapBag([m \in DOMAIN net |-> Wire(m)], net)

\* the requests a step issues
Issued ==
  {m \in DOMAIN Wires' :
     /\ m.phase = "req"
     /\ (m \notin DOMAIN Wires \/ Wires'[m] > Wires[m])}

\* C1 (as stated): an accepted login leaves the session authenticated with the
\* returned token persisted; a rejected login leaves user null and no token
\* persisted, and sets a non-empty error on the Login screen.
C1_AsStated ==
  [][\A m \in Msgs, ok \in BOOLEAN, d \in ErrDetails :
       LoginResolve(m, ok, d) =>
         IF ok THEN user' # Null /\ token' = access_token[m.p1]
         ELSE user' = Null /\ token' = Null /\ error' # ""]_vars

\* C1 (amended): an accepted login leaves the session authenticated as the
\* returned user with the returned token persisted; a rejected login changes
\* neither user nor the persisted token, so an unauthenticated session stays
\* unauthenticated, and sets a non-empty error on the Login form that
\* submitted it when that form is still mounted.
C1_LoginOutcome ==
  [][\A m \in Msgs, ok \in BOOLEAN, d \in ErrDetails :
       LoginResolve(m, ok, d) =>
         IF ok THEN user' = m.p1 /\ user' # Null /\ token' = access_token[m.p1]
         ELSE /\ user' = user /\ token' = token
              /\ (user = Null => user' = Null /\ token' = token)
              /\ (m.live => error' # "" /\ error' # Null /\ view' = "login")]_vars

\* a rejected login showed its error, and an accepted one authenticated the
\* session after it
C1_Witness ==
  /\ route = "/login" /\ error # ""
  /\ user # Null /\ token = access_token[user]

\* C2: when the page is reloaded after a logout, with no login or register
\* submitted since that logout, no token is persisted at the reload and the
\* reloaded page renders Login.
C2_LogoutThenReload ==
  [][\A rt \in Routes :
       (hist.loggedOut /\ Reload(rt)) => (token = Null /\ view' = "login")]_vars

\* C3: session restore. A reload with a persisted token attaches it and issues
\* GET /me, without one it issues nothing and shows Login; a successful /me
\* authenticates the session as the returned user; a failed /me clears the
\* token and the header, leaves the session unauthenticated and the guarded
\* route on Login with no error displayed.
C3_Restore ==
  [][/\ \A rt \in Routes :
          Reload(rt) =>
            IF token # Null
              THEN /\ authHeader' = Bearer(token)
                   /\ \E m \in DOMAIN net' : m.kind = "me" /\ m.auth = Bearer(token)
              ELSE /\ \A m \in DOMAIN net' : m.kind # "me"
                   /\ view' = "login"
     /\ \A m \in Msgs :
          /\ MeResolve(m, TRUE) => user' = UserOfHeader(m.auth) /\ user' # Null
          /\ MeResolve(m, FALSE) =>
               /\ token' = Null /\ authHeader' = NoHeader /\ user' = Null
               /\ (route = "/" => view' = "login" /\ error' = "")]_vars

\* C4 (as stated): every request issued after a successful login/register with
\* token t, until the next logout or successful login/register, carries
\* Authorization: Bearer t; after a logout requests carry no Authorization.
C4_AsStated ==
  [][hist'.sess # "?" => \A m \in Issued : m.auth = hist'.sess]_vars

\* C4 (amended): ... until the next logout, the next successful
\* login/register or the next failed session restore, after which requests
\* carry no Authorization header.
C4_BearerAttached ==
  [][hist'.expect # "?" => \A m \in Issued : m.auth = hist'.expect]_vars

\* requests issued after a login are in flight with its bearer token: the
\* restore after a reload and a dashboard fetch
C4_Witness ==
  /\ hist.expect \in {Bearer(access_token[u]) : u \in Users}
  /\ \E m \in Msgs : m.kind = "me" /\ m.auth = hist.expect
  /\ \E m \in Msgs : m.kind = "login" /\ m.auth = hist.expect

\* C5: on the guarded route the placeholder alone is rendered while loading;
\* afterwards Login without a user, never a dashboard, and with a user the
\* dashboard of its role: candidate, employer, admin for any other role.
C5_RouteGuard ==
  route = "/" =>
    /\ loading => view = "loading"
    /\ (~loading /\ user = Null) => view = "login"
    /\ (~loading /\ user # Null) =>
         view = CASE role[user] = "candidate" -> "candidate"
                  [] role[user] = "employer" -> "employer"
                  [] OTHER -> "admin"
    /\ view \in Dashboards => user # Null

\* an authenticated admin is on the admin dashboard of the guarded route
C5_Witness == route = "/" /\ ~loading /\ user # Null /\ view = "admin"

\* C6: a fetch is issued by a dashboard only when it mounts or when the
\* response of one of its mutations is delivered and is a success; in the
\* latter case it is the one fetch of the collection of that mutation.
C6_RefetchAfterSuccess ==
  [][\A r \in Issued :
       r.kind \in FetchKinds =>
         \/ /\ view' # view /\ view' \in {"candidate", "employer"}
            /\ r.cause = "mount"
         \/ \E m \in Msgs :
              /\ m.kind \in MutationKinds /\ m.phase = "resp" /\ m.ok
              /\ Deliver(m)
              /\ r.kind = RefetchOf[m.kind]
              /\ r.cause = "refetch"
              /\ Issued = {r}]_vars

\* the re-fetch of each mutation has been issued
C6_Witness ==
  \E m \in Msgs : m.kind = "getApplications" /\ m.cause = "refetch" /\ m.phase = "req"

\* the item a successful mutation created is in the list displayed
Shown(w) ==
  IF w[1] = "upload" THEN \E r \in resumes : r.a = w[2]
  ELSE IF w[1] = "apply" THEN \E x \in applications : x.a = w[2] /\ x.b = w[3]
  ELSE \E j \in jobs : j.a = w[2]

\* C7: with a server that answers every request of a signed-in user, once a
\* mutation of the mounted dashboard has succeeded and every fetch of the
\* affected collection that dashboard issued has resolved, the displayed list
\* contains the item the mutation created.
C7_ListReflectsWrite ==
  \A w \in hist.written :
    (\A m \in Msgs : ~(m.live /\ m.kind = RefetchOf[w[1]])) => Shown(w)

\* C8: the response of the GET /resumes a successful upload of f issued lists
\* a resume with filename f.
C8_RefetchListsUpload ==
  \A m \in Msgs :
    (m.kind = "getResumes" /\ m.cause = "refetch" /\ m.phase = "resp" /\ m.ok)
    => \E r \in m.list : r.a = m.c1

\* C9: the response of the GET /applications a successful application issued
\* lists an entry with the job_id of the job whose Apply Now opened the modal
\* and the resume_id selected in it.
C9_RefetchListsApplication ==
  \A m \in Msgs :
    (m.kind = "getApplications" /\ m.cause = "refetch" /\ m.phase = "resp" /\ m.ok)
    => \E x \in m.list : x.a = m.c1 /\ x.b = m.c2

\* C10: POST /register is issued for role employer only with a non-empty
\* company name, and for role candidate whatever the company name holds.
C10_CompanyRequired ==
  /\ [][\A m \in Issued :
          m.kind = "register" =>
            /\ m.p1 = regForm.role /\ m.p2 = regForm.company_name
            /\ (m.p1 = "employer" => m.p2 # "")]_vars
  /\ [][RegisterSubmit => (regForm.role = "employer" => regForm.company_name # "")]_vars
  /\ []((view = "login" /\ showRegister /\ InFlight < MaxNet
          /\ regForm.role = "candidate") => ENABLED RegisterSubmit)
  /\ []((view = "login" /\ showRegister /\ regForm.role = "employer"
          /\ regForm.company_name = "") => ~ENABLED RegisterSubmit)

\* a candidate registration went out with the company name an earlier choice
\* of employer left in the form, and one with an empty company name
C10_Witness ==
  /\ \E m \in Msgs : m.kind = "register" /\ m.p1 = "candidate" /\ m.p2 # ""
  /\ \E m \in Msgs : m.kind = "register" /\ m.p1 = "candidate" /\ m.p2 = ""

\* the error string the rendered screen displays inline: Login and Register
\* render their `error` state above the form; the dashboards and their modals
\* hold no error state and render none
InlineError ==
  IF view = "login" THEN (IF showRegister THEN regError ELSE error) ELSE ""

\* C11: every failure of a call of a mounted screen other than the session
\* restore (login, register, a collection fetch, upload, apply, create job)
\* leaves one non-empty string, the server's detail or else a generic
\* fallback, displayed inline on the screen that issued the call.
C11_FailureShownInline ==
  [][/\ \A m \in Msgs, d \in ErrDetails :
          (m.live /\ LoginResolve(m, FALSE, d)) =>
            InlineError' = OrElse(d, "Login failed") /\ InlineError' # ""
     /\ \A m \in Msgs, d \in ErrDetails :
          (m.live /\ RegisterResolve(m, FALSE, d)) =>
            InlineError' = OrElse(d, "Registration failed") /\ InlineError' # ""
     /\ \A m \in Msgs :
          (m.live /\ ~m.ok /\ Deliver(m)) => InlineError' # ""]_vars

\* every operation of the client at once: the candidate registers, the
\* employer logs in; the server fails or answers any request
ClientNext ==
  \/ \E rt \in Routes : Reload(rt)
  \/ \E m \in Msgs, ok \in BOOLEAN : MeResolve(m, ok)
  \/ LoginSubmit("bob")
  \/ \E m \in Msgs, ok \in BOOLEAN : LoginResolve(m, ok, Null)
  \/ Logout
  \/ ShowRegister
  \/ RegisterSubmit
  \/ \E m \in Msgs, ok \in BOOLEAN : RegisterResolve(m, ok, Null)
  \/ OpenUploadModal
  \/ \E f \in Files : ChooseFile(f)
  \/ UploadSubmit
  \/ \E j \in jobs : ApplyNow(j)
  \/ \E r \in {x.id : x \in resumes} : SelectResume(r)
  \/ ApplySubmit
  \/ OpenJobModal
  \/ \E t \in JobTitles : JobSubmit(t)
  \/ \E m \in Msgs, ok \in BOOLEAN : Serve(m, ok)
  \/ \E m \in Msgs : Deliver(m)

ClientSpec == Init /\ [][ClientNext]_vars

\* how many more copies of request m are in flight after the step
NewCopies(m) == Wires'[m] - (IF m \in DOMAIN Wires THEN Wires[m] ELSE 0)

\* C12: every request in flight was issued, once, by the operation it belongs
\* to: a form or modal submission, the start-up effect of a page load, the
\* mount effect of a dashboard, or the re-fetch of a mutation that succeeded;
\* the step that receives a failed response issues no request.
C12_NoRetry ==
  [][LET I == Issued IN
     \/ I = {}
     \/ /\ \A r \in I :
             /\ NewCopies(r) = 1
             /\ \A q \in I : q.kind = r.kind => q = r
             /\ \/ r.kind = "login" /\ I = {r} /\ \E c \in Creds : LoginSubmit(c)
                \/ r.kind = "register" /\ I = {r} /\ RegisterSubmit
                \/ r.kind = "me" /\ I = {r} /\ \E rt \in Routes : Reload(rt)
                \/ r.kind = "upload" /\ I = {r} /\ UploadSubmit
                \/ r.kind = "apply" /\ I = {r} /\ ApplySubmit
                \/ r.kind = "createJob" /\ I = {r} /\ \E t \in JobTitles : JobSubmit(t)
                \/ /\ r.kind \in FetchKinds /\ r.cause = "mount"
                   /\ view' # view /\ view' \in Dashboards
                \/ /\ r.kind \in FetchKinds /\ r.cause = "refetch" /\ I = {r}
                   /\ \E m \in Msgs : m.kind \in MutationKinds /\ m.ok /\ Deliver(m)
                                      /\ r.kind = RefetchOf[m.kind]
        /\ \A m \in Msgs :
             ~(\/ MeResolve(m, FALSE)
               \/ \E d \in ErrDetails : LoginResolve(m, FALSE, d)
               \/ \E d \in ErrDetails : RegisterResolve(m, FALSE, d)
               \/ (~m.ok /\ Deliver(m)))]_vars

\* the mount fetch of the jobs failed (the server lists at least one job, the
\* dashboard shows none), its failure was received, and nothing is in flight
C12_Witness == view = "candidate" /\ InFlight = 0 /\ jobs = {}

\* the mutations of the mounted dashboard whose response has not arrived yet
Submitting ==
  BagCardinality([m \in {x \in Msgs : x.live /\ x.kind \in MutationKinds} |-> net[m]])

\* C13: a dashboard never has two mutations outstanding at once: a mutating
\* action starts only while no mutation of the screen awaits its response.
C13_OneMutationOutstanding == Submitting <= 1

\* C14: whenever the in-memory user is non-null, a token is persisted, the
\* Authorization header is Bearer of that token, and the user is the one the
\* server returned with that token.
C14_SessionConsistent ==
  user # Null =>
    /\ token # Null
    /\ authHeader = Bearer(token)
    /\ user = UserOfHeader(Bearer(token))

\* the dashboards of one page visit: the candidate and the employer log in,
\* every mutation may fail, and the history keeps the failures
MutationNext ==
  \/ \E c \in {"alice", "bob"} : LoginSubmit(c)
  \/ \E m \in Msgs : LoginResolve(m, TRUE, Null)
  \/ OpenUploadModal
  \/ \E f \in Files : ChooseFile(f)
  \/ CloseUploadModal
  \/ UploadSubmit
  \/ \E j \in jobs : ApplyNow(j)
  \/ \E r \in {""} \cup {x.id : x \in resumes} : SelectResume(r)
  \/ CloseApplicationModal
  \/ ApplySubmit
  \/ OpenJobModal
  \/ CloseJobModal
  \/ \E t \in JobTitles : JobSubmit(t)
  \/ \E m \in Msgs, ok \in BOOLEAN : Serve(m, ok)
  \/ \E m \in Msgs : DeliverNoted(m)

MutationSpec == DashInit /\ [][MutationNext]_vars

\* C15: a failed mutation received by its dashboard issues no re-fetch, leaves
\* the displayed jobs, resumes and applications and every modal as they were;
\* a handler closes a modal only on the successful response of its mutation.
C15_FailedMutationFrame ==
  [][\A m \in Msgs :
       (m.kind \in MutationKinds /\ Received(m)) =>
         /\ ~m.ok =>
              /\ Issued = {}
              /\ jobs' = jobs /\ resumes' = resumes /\ applications' = applications
              /\ showUploadModal' = showUploadModal
              /\ showApplicationModal' = showApplicationModal
              /\ showJobModal' = showJobModal
         /\ (\/ showUploadModal /\ ~showUploadModal'
             \/ showApplicationModal /\ ~showApplicationModal'
             \/ showJobModal /\ ~showJobModal') => m.ok]_vars

\* an upload failed and was received: its modal is still open with the file
\* chosen, nothing is in flight and no resume is listed
C15_Witness ==
  /\ hist.failed = "upload"
  /\ view = "candidate" /\ showUploadModal /\ file # Null
  /\ InFlight = 0 /\ resumes = {}

\* page loads and session restores, with logins and logouts in between; the
\* GET /me of a page load is eventually answered, with success or failure
RestoreNext ==
  \/ \E rt \in Routes : Reload(rt)
  \/ \E m \in Msgs, ok \in BOOLEAN : MeResolve(m, ok)
  \/ \E c \in Creds : LoginSubmit(c)
  \/ \E m \in Msgs, ok \in BOOLEAN : LoginResolve(m, ok, Null)
  \/ Logout
  \/ \E m \in Msgs, ok \in BOOLEAN : Serve(m, ok)
  \/ \E m \in Msgs : Deliver(m)

RestoreSpec ==
  /\ Init /\ [][RestoreNext]_vars
  /\ WF_vars(\E m \in Msgs, ok \in BOOLEAN : MeResolve(m, ok))

\* C16: a page load that is loading eventually is not; within a page load
\* loading never returns to true (only a new page load starts loading again);
\* and once loading has ended the guarded route shows Login or a dashboard,
\* not the placeholder.
C16_LoadingEnds ==
  /\ loading ~> ~loading
  /\ [][(~loading /\ loading') => \E rt \in Routes : Reload(rt)]_vars
  /\ [](~loading => view \in {"login"} \cup Dashboards)

\* a session restore failed and ended loading: the guarded route shows Login
C16_Witness ==
  /\ ~loading /\ route = "/" /\ view = "login" /\ token = Null
  /\ hist.expect = NoHeader /\ hist.sess \notin {"?", NoHeader}

====
